---- MODULE Spec2Model ----
(***************************************************************************)
(* A model of bowtie's noxfile.py: the registration of its sessions (the   *)
(* session() wrapper and the benchmark() factory) and the bodies of the    *)
(* sessions, run one at a time by nox.                                     *)
(*                                                                         *)
(* Strings that the code takes apart (archive member names, function       *)
(* names) are sequences of atoms; "/" is an atom of its own, and no other  *)
(* atom contains a "/", nor a piece of the text "bowtie/schemas" except    *)
(* the atoms "bowtie" and "schemas" themselves, so that split, `in`,       *)
(* startswith and removeprefix on the atoms agree with the same operations *)
(* on the characters.  Strings the code only passes along (positional      *)
(* arguments, command words) are TLA+ strings.                             *)
(***************************************************************************)
EXTENDS Integers, Sequences, FiniteSets, TLC

\* ------------------------------------------------------------------ bounds
MaxPosargs == 2
MaxTarMembers == 2
MaxWheelNames == 2
MaxRegistrations == 3

\* --------------------------------------------------------- string helpers
\* str.startswith(prefix)
StartsWith(s, prefix) ==
    /\ Len(prefix) <= Len(s)
    /\ SubSeq(s, 1, Len(prefix)) = prefix

\* str.removeprefix(prefix): the string unchanged when it has no such prefix
RemovePrefix(s, prefix) ==
    IF StartsWith(s, prefix) THEN SubSeq(s, Len(prefix) + 1, Len(s)) ELSE s

\* `sub in s` on strings: sub occurs as a contiguous run
Contains(s, sub) ==
    \E i \in 0..(Len(s) - Len(sub)) : SubSeq(s, i + 1, i + Len(sub)) = sub

\* `sub in s` on lists: some element equals sub
ListContains(s, elem) == \E i \in 1..Len(s) : s[i] = elem

\* least index of sep in s, 0 when there is none
FirstIndex(s, sep) ==
    IF \E i \in 1..Len(s) : s[i] = sep
    THEN CHOOSE i \in 1..Len(s) : s[i] = sep /\ \A j \in 1..(i - 1) : s[j] # sep
    ELSE 0

\* str.split(sep, maxsplit): at most maxsplit cuts, from the left; the pieces
RECURSIVE Split(_, _, _)
Split(s, sep, maxsplit) ==
    IF maxsplit = 0 \/ FirstIndex(s, sep) = 0
    THEN << s >>
    ELSE LET i == FirstIndex(s, sep)
         IN  << SubSeq(s, 1, i - 1) >> \o Split(SubSeq(s, i + 1, Len(s)), sep, maxsplit - 1)

\* ------------------------------------------------------------------ paths
\* A pathlib path: whether it is anchored at the root, and its segments.
SLASH == "/"

\* the segments pathlib keeps of a string: empty ones are dropped
PathParts(s) == SelectSeq(Split(s, SLASH, Len(s)), LAMBDA part : part # << >>)

\* Path(s)
PathOf(s) == [abs |-> (Len(s) > 0 /\ s[1] = SLASH), parts |-> PathParts(s)]

\* base.joinpath(s), base / s: an anchored s replaces base
JoinPath(base, s) ==
    IF Len(s) > 0 /\ s[1] = SLASH
    THEN PathOf(s)
    ELSE [abs |-> base.abs, parts |-> base.parts \o PathParts(s)]

\* the working directory nox runs the sessions in (it changes to ROOT)
CWD == [abs |-> TRUE, parts |-> << << "root" >> >>]

\* Path.absolute(): the working directory in front of a path not anchored
Absolute(p) ==
    IF p.abs THEN p ELSE [abs |-> TRUE, parts |-> CWD.parts \o p.parts]

ROOT == [abs |-> TRUE, parts |-> << << "root" >> >>]
BOWTIE == JoinPath(ROOT, << "bowtie" >>)
SCHEMAS == JoinPath(BOWTIE, << "schemas" >>)

\* the literal "bowtie/schemas" of the tar filter and of the wheel filter
MARKER == << "bowtie", "/", "schemas" >>
\* the literal "bowtie/schemas/" the wheel mapping removes
WHEEL_PREFIX == << "bowtie", "/", "schemas", "/" >>

\* ------------------------------------------------------------ input pools
\* caller-supplied trailing arguments (session.posargs)
Tokens == {"coverage", "github", "-i", "my dir/h"}

RECURSIVE SeqsUpTo(_, _)
SeqsUpTo(S, n) ==
    IF n = 0 THEN {<< >>}
    ELSE LET shorter == SeqsUpTo(S, n - 1)
         IN  shorter \cup {Append(s, x) : s \in {t \in shorter : Len(t) = n - 1}, x \in S}

PosargsPool == SeqsUpTo(Tokens, MaxPosargs)

\* the elements of a list
Range(s) == {s[n] : n \in 1..Len(s)}

\* subsets of S with at most n elements
SubsetsUpTo(S, n) == {T \in SUBSET S : Cardinality(T) <= n}

\* files that may lie under bowtie/schemas in the working tree, by their
\* segments relative to it
SchemaFilePool ==
    { << << "a", ".json" >> >>,
      << << "sub" >>, << "b", ".json" >> >>,
      << << "README" >> >> }

\* member names a source archive may hold
TarNamePool ==
    { << "top", "/", "bowtie", "/", "schemas", "/", "a", ".json" >>,
      << "top", "/", "bowtie", "/", "schemas", "/", "sub", "/", "b", ".json" >>,
      << "top", "/", "x", "bowtie", "/", "schemas", "/", "a", ".json" >>,
      << "top", "/", "bowtie", "/", "schemas" >>,
      << "top", "/", "PKG-INFO" >> }

\* entry names a wheel may hold
WheelNamePool ==
    { << "bowtie", "/", "schemas", "/", "a", ".json" >>,
      << "bowtie", "/", "schemas", "/", "sub", "/", "b", ".json" >>,
      << "bowtie", "/", "schemas", "x", "/", "a", ".json" >> }

\* ------------------------------------------------------------------ state
VARIABLES
    registry,     \* nox's registry: what each session(...) call registered
    sessions,     \* nox.options.sessions
    fn,           \* the function of the session being run
    builder,      \* the docs session's parameter
    posargs,      \* session.posargs
    pc,           \* where the session's body stands
    calls,        \* the session.install / session.run calls made so far
    outcome,      \* how the session ended
    message,      \* what session.error or the assert reported
    tmpdir,       \* the TemporaryDirectory: "none", "held" or "released"
    out,          \* shiv's local `out`
    github,       \* tests' local `github`
    i,            \* position of a body's for loop
    schemaFiles,  \* the files under bowtie/schemas in the working tree
    tarMembers,   \* the member names of the built *.tar.gz
    wheelNames,   \* the entry names of the built *.whl
    schemas,      \* build's local `schemas`
    found,        \* build's local `found`
    opened        \* the archives build has opened

vars == << registry, sessions, fn, builder, posargs, pc, calls, outcome, message,
           tmpdir, out, github, i, schemaFiles, tarMembers, wheelNames, schemas,
           found, opened >>

regVars == << registry, sessions >>
runVars == << fn, builder, posargs, pc, calls, outcome, message, tmpdir, out,
              github, i, schemaFiles, tarMembers, wheelNames, schemas, found,
              opened >>
buildVars == << tarMembers, wheelNames, schemas, found, opened >>
localVars == << out, github, i >>
fixedVars == << registry, sessions, fn, builder, posargs, schemaFiles >>

\* ----------------------------------------------------------- registration
\* A function of the noxfile: its __name__, and what nox.parametrize left on it.
Fn(name) == [name |-> name, parametrized |-> FALSE, params |-> << >>]

\* @nox.parametrize("builder", [nox.param(name, id=name) for name in ids])
parametrize(f, ids) == [f EXCEPT !.parametrized = TRUE, !.params = ids]

\* no name= keyword given to session(...)
NoName == << >>

\* kwargs.get("name", fn.__name__)
SessionName(kwname, f) == IF kwname # NoName THEN kwname ELSE f.name

\* a wrapper that forgets to look at `default`
OptionsAppend_Always(sess, default, kwname, f) == Append(sess, SessionName(kwname, f))

\* a wrapper that enrolls a parametrized function once per parameter
OptionsAppend_PerInstance(sess, default, kwname, f) ==
    IF ~default THEN sess
    ELSE IF f.parametrized
         THEN sess \o [k \in 1..Len(f.params) |->
                         SessionName(kwname, f) \o << "(", f.params[k], ")" >>]
         ELSE Append(sess, SessionName(kwname, f))

\* if default: nox.options.sessions.append(...)
OptionsAppend(sess, default, kwname, f) ==
    IF default THEN Append(sess, SessionName(kwname, f)) ELSE sess

\* nox.session(python=python, **kwargs)(fn): one entry of nox's registry;
\* `default` is kept with it to tell afterwards how it was registered
NoxSession(reg, default, kwname, f) ==
    Append(reg, [name |-> SessionName(kwname, f), fn |-> f.name, default |-> default,
                 parametrized |-> f.parametrized, params |-> f.params])

\* session(default=..., name=...)(fn), on the pair of registry and options
session(st, default, kwname, f) ==
    [registry |-> NoxSession(st.registry, default, kwname, f),
     sessions |-> OptionsAppend(st.sessions, default, kwname, f)]

BENCH_PREFIX == << "bench_" >>

\* f"bench({name})" with name = fn.__name__.removeprefix("bench_")
BenchName(f) == << "bench(" >> \o RemovePrefix(f.name, BENCH_PREFIX) \o << ")" >>

\* benchmark(fn): session(default=False, tags=["perf"], name=...)(wraps(fn)(...))
benchmark(st, f) == session(st, FALSE, BenchName(f), f)

BUILDERS == << "dirhtml", "doctest", "linkcheck", "man", "spelling" >>

\* the registrations of the noxfile, in the order of the file
NOXFILE ==
    << [via |-> "session", default |-> TRUE, kwname |-> NoName, f |-> Fn(<< "tests" >>)],
       [via |-> "session", default |-> TRUE, kwname |-> NoName, f |-> Fn(<< "audit" >>)],
       [via |-> "session", default |-> TRUE, kwname |-> NoName, f |-> Fn(<< "build" >>)],
       [via |-> "session", default |-> TRUE, kwname |-> NoName, f |-> Fn(<< "shiv" >>)],
       [via |-> "session", default |-> TRUE, kwname |-> NoName, f |-> Fn(<< "style" >>)],
       [via |-> "session", default |-> TRUE, kwname |-> NoName, f |-> Fn(<< "typing" >>)],
       [via |-> "session", default |-> TRUE, kwname |-> NoName,
        f |-> parametrize(Fn(<< "docs" >>), BUILDERS)],
       [via |-> "session", default |-> TRUE, kwname |-> << "docs(style)" >>,
        f |-> Fn(<< "docs_style" >>)],
       [via |-> "benchmark", default |-> FALSE, kwname |-> NoName,
        f |-> Fn(<< "bench_", "info" >>)],
       [via |-> "benchmark", default |-> FALSE, kwname |-> NoName,
        f |-> Fn(<< "bench_", "smoke" >>)],
       [via |-> "benchmark", default |-> FALSE, kwname |-> NoName,
        f |-> Fn(<< "bench_", "suite" >>)],
       [via |-> "session", default |-> FALSE, kwname |-> NoName,
        f |-> Fn(<< "develop_harness" >>)],
       [via |-> "session", default |-> FALSE, kwname |-> NoName,
        f |-> Fn(<< "requirements" >>)],
       [via |-> "session", default |-> FALSE, kwname |-> NoName, f |-> Fn(<< "ui" >>)] >>

\* nox.options.sessions = [], and nothing registered yet
Empty == [registry |-> << >>, sessions |-> << >>]

\* the registry and the options once the first n registrations have run
RECURSIVE LoadedUpTo(_)
LoadedUpTo(n) ==
    IF n = 0 THEN Empty
    ELSE LET d == NOXFILE[n]
             before == LoadedUpTo(n - 1)
         IN  IF d.via = "benchmark"
             THEN benchmark(before, d.f)
             ELSE session(before, d.default, d.kwname, d.f)

Loaded == LoadedUpTo(Len(NOXFILE))

\* what a registration may be given
FnPool == {Fn(<< "docs" >>), Fn(<< "bench_", "suite" >>)}
KwnamePool == {NoName, << "docs(style)" >>}
ParamsPool == {<< >>, << "dirhtml", "man" >>, BUILDERS}

\* @session(default=..., name=...) on a plain function
RegisterSession(default, kwname, f) ==
    /\ Len(registry) < MaxRegistrations
    /\ LET after == session([registry |-> registry, sessions |-> sessions],
                            default, kwname, f)
       IN  /\ registry' = after.registry
           /\ sessions' = after.sessions
    /\ UNCHANGED runVars

\* @session(default=..., name=...) on top of @nox.parametrize(...)
RegisterParametrized(default, kwname, f, ids) ==
    /\ Len(registry) < MaxRegistrations
    /\ LET after == session([registry |-> registry, sessions |-> sessions],
                            default, kwname, parametrize(f, ids))
       IN  /\ registry' = after.registry
           /\ sessions' = after.sessions
    /\ UNCHANGED runVars

\* @benchmark
RegisterBenchmark(f) ==
    /\ Len(registry) < MaxRegistrations
    /\ LET after == benchmark([registry |-> registry, sessions |-> sessions], f)
       IN  /\ registry' = after.registry
           /\ sessions' = after.sessions
    /\ UNCHANGED runVars

\* -------------------------------------------------------- running a session
NoMessage == [text |-> "", expected |-> {}, found |-> {}]

Install(args) == [via |-> "install", args |-> args]
Run(args) == [via |-> "run", args |-> args]

\* a directory made with mkdtemp and never removed
WithExit_Leak(t) == t

\* leaving `with TemporaryDirectory()` / `with ExitStack()`: whatever way the
\* block is left, the directory it entered is removed
WithExit(t) == IF t = "held" THEN "released" ELSE t

\* the body is left by an exception
Raise(kind, msg) ==
    /\ pc' = "done"
    /\ outcome' = kind
    /\ message' = msg
    /\ tmpdir' = WithExit(tmpdir)

\* the body returns
Return ==
    /\ pc' = "done"
    /\ outcome' = "success"
    /\ message' = message
    /\ tmpdir' = WithExit(tmpdir)

Goto(next) ==
    IF next = "done"
    THEN Return
    ELSE /\ pc' = next
         /\ UNCHANGED << outcome, message, tmpdir >>

\* session.install(...) or session.run(...): nox starts the process and waits
\* for it; a non-zero exit raises CommandFailed, an interrupt KeyboardInterrupt
Invoke(call, next) ==
    /\ calls' = Append(calls, call)
    /\ \/ Goto(next)
       \/ Raise("CommandFailed", NoMessage)
       \/ Raise("KeyboardInterrupt", NoMessage)

At(f, where) == fn = f /\ pc = where

\* nox runs one of the registered sessions with the caller's trailing arguments;
\* a parametrized one runs as one of its instances
Select(k, args, b) ==
    /\ pc = "idle"
    /\ IF registry[k].parametrized
       THEN \E j \in 1..Len(registry[k].params) : registry[k].params[j] = b
       ELSE b = "none"
    /\ fn' = registry[k].fn
    /\ builder' = b
    /\ posargs' = args
    /\ pc' = "start"
    /\ UNCHANGED << registry, sessions, calls, outcome, message, tmpdir, out, github,
                    i, schemaFiles, tarMembers, wheelNames, schemas, found, opened >>

\* ------------------------------------------------------------------ tests
tests_install ==
    /\ At(<< "tests" >>, "start")
    /\ Invoke(Install(<< "-r", "test-requirements.txt" >>), "tests_mode")
    /\ UNCHANGED << fixedVars, localVars, buildVars >>

CoverageMode(args) == Len(args) > 0 /\ args[1] = "coverage"
GithubMode(args) == Len(args) > 1 /\ args[2] = "github"

\* the coverage branch up to session.install("coverage[toml]"); os.environ[...]
\* raises KeyError when GITHUB_STEP_SUMMARY is not set
tests_coverage_install ==
    /\ At(<< "tests" >>, "tests_mode")
    /\ CoverageMode(posargs)
    /\ \/ /\ github' = IF GithubMode(posargs) THEN "GITHUB_STEP_SUMMARY" ELSE "None"
          /\ Invoke(Install(<< "coverage[toml]" >>), "tests_hook")
       \/ /\ GithubMode(posargs)
          /\ Raise("KeyError", NoMessage)
          /\ UNCHANGED << github, calls >>
    /\ UNCHANGED << fixedVars, out, i, buildVars >>

\* _install_coverage_hook(session)
tests_hook ==
    /\ At(<< "tests" >>, "tests_hook")
    /\ Invoke(Run(<< "python", "-c", "coverage.pth" >>), "tests_coverage_run")
    /\ UNCHANGED << fixedVars, localVars, buildVars >>

tests_coverage_run ==
    /\ At(<< "tests" >>, "tests_coverage_run")
    /\ Invoke(Run(<< "coverage", "run", "-m", "pytest", "tests" >>), "tests_report")
    /\ UNCHANGED << fixedVars, localVars, buildVars >>

tests_report ==
    /\ At(<< "tests" >>, "tests_report")
    /\ IF github = "None"
       THEN Invoke(Run(<< "coverage", "report" >>), "done")
       ELSE Invoke(Run(<< "coverage", "report", "--format=markdown" >>), "done")
    /\ UNCHANGED << fixedVars, localVars, buildVars >>

\* session.run("pytest", *session.posargs, TESTS)
tests_pytest ==
    /\ At(<< "tests" >>, "tests_mode")
    /\ ~CoverageMode(posargs)
    /\ Invoke(Run(<< "pytest" >> \o posargs \o << "tests" >>), "done")
    /\ UNCHANGED << fixedVars, localVars, buildVars >>

\* ------------------------------------------------------------------ audit
audit_install ==
    /\ At(<< "audit" >>, "start")
    /\ Invoke(Install(<< "pip-audit", "-r", "requirements.txt" >>), "audit_run")
    /\ UNCHANGED << fixedVars, localVars, buildVars >>

audit_run ==
    /\ At(<< "audit" >>, "audit_run")
    /\ Invoke(Run(<< "python", "-m", "pip_audit", "--ignore-vuln", "PYSEC-2022-43059" >>),
              "done")
    /\ UNCHANGED << fixedVars, localVars, buildVars >>

\* ------------------------------------------------------------------ build
\* the suffix test of the pattern "*.json" on a file's last segment
IsJson(rel) == LET name == rel[Len(rel)] IN name[Len(name)] = ".json"

\* SCHEMAS.rglob("*.json")
Rglob(files) ==
    {[abs |-> SCHEMAS.abs, parts |-> SCHEMAS.parts \o rel] : rel \in {r \in files : IsJson(r)}}

\* the members the tar comprehension keeps
TarMatched(members) == {m \in members : Contains(m, MARKER)}

\* member.name.split("/", 3)[3] has no value for a kept member of fewer than
\* four pieces: IndexError
TarIndexError(members) == \E m \in TarMatched(members) : Len(Split(m, SLASH, 3)) < 4

\* the set the tar comprehension builds
TarFound(members) ==
    {Absolute(JoinPath(SCHEMAS, Split(m, SLASH, 3)[4])) : m \in TarMatched(members)}

\* the set the wheel comprehension builds
WheelFound(names) ==
    {Absolute(JoinPath(SCHEMAS, RemovePrefix(n, WHEEL_PREFIX))) :
        n \in {x \in names : StartsWith(x, MARKER)}}

\* a check that demands the archive hold the schemas and nothing else
SchemasIncluded_Equal(expected, got) == expected = got

\* schemas <= found
SchemasIncluded(expected, got) == expected \subseteq got

TAR_MISSING == "Tar distribution schemas are missing."
WHEEL_MISSING == "Wheel distribution schemas are missing."
NO_SCHEMAS == "Didn't find any schemas!"

\* f"... Expected {schemas} but found {found}."
Missing(text, expected, got) == [text |-> text, expected |-> expected, found |-> got]

build_install ==
    /\ At(<< "build" >>, "start")
    /\ Invoke(Install(<< "build", "twine" >>), "build_tmpdir")
    /\ UNCHANGED << fixedVars, localVars, buildVars >>

\* with TemporaryDirectory() as tmpdir:
build_tmpdir ==
    /\ At(<< "build" >>, "build_tmpdir")
    /\ tmpdir' = "held"
    /\ pc' = "build_run"
    /\ UNCHANGED << fixedVars, localVars, buildVars, calls, outcome, message >>

\* python -m build: when it succeeds, the two archives lie in tmpdir
build_run ==
    /\ At(<< "build" >>, "build_run")
    /\ calls' = Append(calls, Run(<< "python", "-m", "build", "ROOT", "--outdir", "TMPDIR" >>))
    /\ \/ /\ Goto("build_twine")
          /\ tarMembers' \in SubsetsUpTo(TarNamePool, MaxTarMembers)
          /\ wheelNames' \in SubsetsUpTo(WheelNamePool, MaxWheelNames)
       \/ /\ Raise("CommandFailed", NoMessage)
          /\ UNCHANGED << tarMembers, wheelNames >>
       \/ /\ Raise("KeyboardInterrupt", NoMessage)
          /\ UNCHANGED << tarMembers, wheelNames >>
    /\ UNCHANGED << fixedVars, localVars, schemas, found, opened >>

build_twine ==
    /\ At(<< "build" >>, "build_twine")
    /\ Invoke(Run(<< "twine", "check", "--strict", "TMPDIR/*" >>), "build_schemas")
    /\ UNCHANGED << fixedVars, localVars, buildVars >>

\* a build whose assert is gone
build_schemas_unasserted ==
    /\ At(<< "build" >>, "build_schemas")
    /\ schemas' = Rglob(schemaFiles)
    /\ Goto("build_tar")
    /\ UNCHANGED << fixedVars, localVars, calls, tarMembers, wheelNames, found, opened >>

\* schemas = frozenset(...); assert schemas, "Didn't find any schemas!"
build_schemas ==
    /\ At(<< "build" >>, "build_schemas")
    /\ schemas' = Rglob(schemaFiles)
    /\ IF schemas' = {}
       THEN Raise("AssertionError", Missing(NO_SCHEMAS, {}, {}))
       ELSE Goto("build_tar")
    /\ UNCHANGED << fixedVars, localVars, calls, tarMembers, wheelNames, found, opened >>

\* a tar check that warns of the mismatch and goes on to the wheel
build_tar_warns ==
    /\ At(<< "build" >>, "build_tar")
    /\ opened' = opened \cup {"tar"}
    /\ IF TarIndexError(tarMembers)
       THEN /\ Raise("IndexError", NoMessage)
            /\ UNCHANGED found
       ELSE /\ found' = TarFound(tarMembers)
            /\ pc' = "build_wheel"
            /\ message' = IF SchemasIncluded(schemas, found')
                          THEN message
                          ELSE Missing(TAR_MISSING, schemas, found')
            /\ UNCHANGED << outcome, tmpdir >>
    /\ UNCHANGED << fixedVars, localVars, calls, tarMembers, wheelNames, schemas >>

\* with tarfile.open(tarpath) as tar: ... session.error(...)
build_tar ==
    /\ At(<< "build" >>, "build_tar")
    /\ opened' = opened \cup {"tar"}
    /\ IF TarIndexError(tarMembers)
       THEN /\ Raise("IndexError", NoMessage)
            /\ UNCHANGED found
       ELSE /\ found' = TarFound(tarMembers)
            /\ IF SchemasIncluded(schemas, found')
               THEN Goto("build_wheel")
               ELSE Raise("SessionError", Missing(TAR_MISSING, schemas, found'))
    /\ UNCHANGED << fixedVars, localVars, calls, tarMembers, wheelNames, schemas >>

\* wheel = ZipFile(wheelpath) ... session.error(...)
build_wheel ==
    /\ At(<< "build" >>, "build_wheel")
    /\ opened' = opened \cup {"wheel"}
    /\ found' = WheelFound(wheelNames)
    /\ IF SchemasIncluded(schemas, found')
       THEN Goto("done")
       ELSE Raise("SessionError", Missing(WHEEL_MISSING, schemas, found'))
    /\ UNCHANGED << fixedVars, localVars, calls, tarMembers, wheelNames, schemas >>

\* ------------------------------------------------------------------- shiv
shiv_install ==
    /\ At(<< "shiv" >>, "start")
    /\ Invoke(Install(<< "shiv" >>), "shiv_out")
    /\ UNCHANGED << fixedVars, localVars, buildVars >>

\* with ExitStack() as stack: the directory is entered only without posargs
shiv_out ==
    /\ At(<< "shiv" >>, "shiv_out")
    /\ IF Len(posargs) > 0
       THEN /\ out' = posargs[1]
            /\ tmpdir' = tmpdir
       ELSE /\ out' = "TMPDIR/bowtie"
            /\ tmpdir' = "held"
    /\ pc' = "shiv_run"
    /\ UNCHANGED << fixedVars, github, i, buildVars, calls, outcome, message >>

shiv_run ==
    /\ At(<< "shiv" >>, "shiv_run")
    /\ Invoke(Run(<< "python", "-m", "shiv", "--reproducible", "-c", "bowtie", "-r",
                     "requirements.txt", "ROOT", "-o", out >>), "done")
    /\ UNCHANGED << fixedVars, localVars, buildVars >>

\* ------------------------------------------------------------------ style
style_install ==
    /\ At(<< "style" >>, "start")
    /\ Invoke(Install(<< "ruff" >>), "style_run")
    /\ UNCHANGED << fixedVars, localVars, buildVars >>

style_run ==
    /\ At(<< "style" >>, "style_run")
    /\ Invoke(Run(<< "ruff", "check", "bowtie", "tests", "noxfile.py" >>), "done")
    /\ UNCHANGED << fixedVars, localVars, buildVars >>

\* ----------------------------------------------------------------- typing
typing_install ==
    /\ At(<< "typing" >>, "start")
    /\ Invoke(Install(<< "pyright", "ROOT" >>), "typing_run")
    /\ UNCHANGED << fixedVars, localVars, buildVars >>

typing_run ==
    /\ At(<< "typing" >>, "typing_run")
    /\ Invoke(Run(<< "pyright", "bowtie" >>), "done")
    /\ UNCHANGED << fixedVars, localVars, buildVars >>

\* ------------------------------------------------------------------- docs
docs_install ==
    /\ At(<< "docs" >>, "start")
    /\ Invoke(Install(<< "-r", "docs/requirements.txt" >>), "docs_tmpdir")
    /\ UNCHANGED << fixedVars, localVars, buildVars >>

\* with TemporaryDirectory() as tmpdir_str:
docs_tmpdir ==
    /\ At(<< "docs" >>, "docs_tmpdir")
    /\ tmpdir' = "held"
    /\ pc' = "docs_sphinx"
    /\ UNCHANGED << fixedVars, localVars, buildVars, calls, outcome, message >>

\* a docs session that always builds into its temporary directory
SphinxPosargs_Default(args, b) == << "TMPDIR/" \o b >>

\* argv = ["-n", "-T", "-W"], and "-q" unless the builder is "spelling"
SphinxArgv(b) == << "-n", "-T", "-W" >> \o (IF b # "spelling" THEN << "-q" >> ELSE << >>)

\* session.posargs or [tmpdir / builder]
SphinxPosargs(args, b) == IF Len(args) > 0 THEN args ELSE << "TMPDIR/" \o b >>

docs_sphinx ==
    /\ At(<< "docs" >>, "docs_sphinx")
    /\ Invoke(Run(<< "python", "-m", "sphinx", "-b", builder, "docs" >>
                  \o SphinxArgv(builder) \o SphinxPosargs(posargs, builder)), "done")
    /\ UNCHANGED << fixedVars, localVars, buildVars >>

\* ------------------------------------------------------------ docs(style)
docs_style_install ==
    /\ At(<< "docs_style" >>, "start")
    /\ Invoke(Install(<< "doc8", "pygments", "pygments-github-lexers" >>), "docs_style_run")
    /\ UNCHANGED << fixedVars, localVars, buildVars >>

docs_style_run ==
    /\ At(<< "docs_style" >>, "docs_style_run")
    /\ Invoke(Run(<< "python", "-m", "doc8", "--config", "pyproject.toml", "docs" >>), "done")
    /\ UNCHANGED << fixedVars, localVars, buildVars >>

\* ------------------------------------------------------------- benchmarks
\* Path(session.bin) / "bowtie"
BOWTIE_BIN == "BIN/bowtie"

\* ",".join(p.name for p in IMPLEMENTATIONS.iterdir() if p.is_dir())
IMPLEMENTATION_NAMES == "IMPLEMENTATIONS"

\* what a benchmark function gives back: an error it reported through
\* session.error, or the hyperfine arguments and the command to time
BenchError(text) == [error |-> TRUE, text |-> text, args |-> << >>, command |-> ""]
BenchResult(args, command) == [error |-> FALSE, text |-> "", args |-> args, command |-> command]

bench_info(args) ==
    BenchResult(IF Len(args) > 0 THEN args
                ELSE << "--warmup", "3", "-L", "implementation", IMPLEMENTATION_NAMES >>,
                BOWTIE_BIN \o " info -i {implementation}")

bench_smoke(args) ==
    BenchResult(IF Len(args) > 0 THEN args
                ELSE << "--warmup", "3", "-L", "implementation", IMPLEMENTATION_NAMES >>,
                BOWTIE_BIN \o " smoke -i {implementation}")

\* the tokens with a character outside shlex's safe set
UnsafeTokens == {"my dir/h"}

\* shlex.quote(s)
ShlexQuote(s) ==
    IF s = "" THEN "''"
    ELSE IF s \in UnsafeTokens THEN "'" \o s \o "'" ELSE s

\* shlex.join(args)
RECURSIVE ShlexJoin(_)
ShlexJoin(args) ==
    IF Len(args) = 0 THEN ""
    ELSE IF Len(args) = 1 THEN ShlexQuote(args[1])
    ELSE ShlexQuote(args[1]) \o " " \o ShlexJoin(Tail(args))

PROVIDE_SUITE == "Provide a test suite to benchmark"

\* a bench_suite without its check of session.posargs
bench_suite_unchecked(args) ==
    IF ~ListContains(args, "-i")
    THEN BenchResult(<< "--warmup", "1", "--ignore-failure", "-L", "implementation",
                        IMPLEMENTATION_NAMES >>,
                     BOWTIE_BIN \o " suite -i {implementation} " \o ShlexJoin(args))
    ELSE BenchResult(<< >>, BOWTIE_BIN \o " suite " \o ShlexJoin(args))

bench_suite(args) ==
    IF Len(args) = 0
    THEN BenchError(PROVIDE_SUITE)
    ELSE IF ~ListContains(args, "-i")
         THEN BenchResult(<< "--warmup", "1", "--ignore-failure", "-L", "implementation",
                             IMPLEMENTATION_NAMES >>,
                          BOWTIE_BIN \o " suite -i {implementation} " \o ShlexJoin(args))
         ELSE BenchResult(<< >>, BOWTIE_BIN \o " suite " \o ShlexJoin(args))

BenchFns == {<< "bench_", "info" >>, << "bench_", "smoke" >>, << "bench_", "suite" >>}

\* fn(session=session, bowtie=bowtie)
BenchCall(f, args) ==
    IF f = << "bench_", "info" >> THEN bench_info(args)
    ELSE IF f = << "bench_", "smoke" >> THEN bench_smoke(args)
    ELSE bench_suite(args)

\* _benchmark: session.install("-r", REQUIREMENTS["main"], ROOT)
benchmark_install ==
    /\ fn \in BenchFns
    /\ pc = "start"
    /\ Invoke(Install(<< "-r", "requirements.txt", "ROOT" >>), "benchmark_fn")
    /\ UNCHANGED << fixedVars, localVars, buildVars >>

\* _benchmark: hyperfine_args, command = fn(...); session.run("hyperfine", ...)
benchmark_fn ==
    /\ fn \in BenchFns
    /\ pc = "benchmark_fn"
    /\ LET r == BenchCall(fn, posargs)
       IN  IF r.error
           THEN /\ Raise("SessionError", Missing(r.text, {}, {}))
                /\ UNCHANGED calls
           ELSE Invoke(Run(<< "hyperfine" >> \o r.args \o << r.command >>), "done")
    /\ UNCHANGED << fixedVars, localVars, buildVars >>

\* -------------------------------------------------------- develop_harness
\* Path(each).name: what follows the last "/"
PathName(each) == IF each = "my dir/h" THEN "h" ELSE each

\* the next turn of `for each in session.posargs`: podman build
develop_harness_build ==
    /\ fn = << "develop_harness" >>
    /\ pc \in {"start", "develop_harness_build"}
    /\ IF i > Len(posargs)
       THEN /\ Return
            /\ UNCHANGED calls
       ELSE Invoke(Run(<< "podman", "build", "-f",
                          "implementations/" \o PathName(posargs[i]) \o "/Dockerfile", "-t",
                          "ghcr.io/bowtie-json-schema/" \o PathName(posargs[i]) >>),
                   "develop_harness_smoke")
    /\ UNCHANGED << fixedVars, localVars, buildVars >>

develop_harness_smoke ==
    /\ At(<< "develop_harness" >>, "develop_harness_smoke")
    /\ Invoke(Run(<< "bowtie", "smoke", "--quiet", "-i", PathName(posargs[i]) >>),
              "develop_harness_build")
    /\ i' = i + 1
    /\ UNCHANGED << fixedVars, out, github, buildVars >>

\* ----------------------------------------------------------- requirements
\* each.relative_to(ROOT) for each in REQUIREMENTS_IN
REQUIREMENTS_IN == << "pyproject.toml", "docs/requirements.in", "test-requirements.in" >>

requirements_install ==
    /\ At(<< "requirements" >>, "start")
    /\ Invoke(Install(<< "pip-tools" >>), "requirements_compile")
    /\ UNCHANGED << fixedVars, localVars, buildVars >>

requirements_compile ==
    /\ At(<< "requirements" >>, "requirements_compile")
    /\ Invoke(Run(<< "pip-compile", "--resolver", "backtracking", "--strip-extras", "-U",
                     REQUIREMENTS_IN[i] >>),
              IF i = Len(REQUIREMENTS_IN) THEN "done" ELSE "requirements_compile")
    /\ i' = i + 1
    /\ UNCHANGED << fixedVars, out, github, buildVars >>

\* --------------------------------------------------------------------- ui
\* needs_install = not UI.joinpath("node_modules").is_dir()
ui_install ==
    /\ At(<< "ui" >>, "start")
    /\ \E needs_install \in BOOLEAN :
          IF needs_install
          THEN Invoke(Run(<< "pnpm", "install", "--dir", "frontend" >>), "ui_start")
          ELSE /\ Goto("ui_start")
               /\ UNCHANGED calls
    /\ UNCHANGED << fixedVars, localVars, buildVars >>

ui_start ==
    /\ At(<< "ui" >>, "ui_start")
    /\ Invoke(Run(<< "pnpm", "run", "--dir", "frontend", "start" >>), "done")
    /\ UNCHANGED << fixedVars, localVars, buildVars >>

\* --------------------------------------------------------- specifications
\* nothing is running
Idle ==
    /\ fn = << >>
    /\ builder = "none"
    /\ posargs = << >>
    /\ pc = "idle"
    /\ calls = << >>
    /\ outcome = "none"
    /\ message = NoMessage
    /\ tmpdir = "none"
    /\ out = "unset"
    /\ github = "unset"
    /\ i = 1
    /\ tarMembers = {}
    /\ wheelNames = {}
    /\ schemas = {}
    /\ found = {}
    /\ opened = {}

\* the noxfile has been loaded, over some working tree
Init ==
    /\ registry = Loaded.registry
    /\ sessions = Loaded.sessions
    /\ schemaFiles \in SUBSET SchemaFilePool
    /\ Idle

Next ==
    \/ /\ pc = "idle"
       /\ \E k \in 1..Len(registry), args \in PosargsPool, b \in {"none"} \cup Range(BUILDERS) :
             Select(k, args, b)
    \/ tests_install
    \/ tests_coverage_install
    \/ tests_hook
    \/ tests_coverage_run
    \/ tests_report
    \/ tests_pytest
    \/ audit_install
    \/ audit_run
    \/ build_install
    \/ build_tmpdir
    \/ build_run
    \/ build_twine
    \/ build_schemas
    \/ build_tar
    \/ build_wheel
    \/ shiv_install
    \/ shiv_out
    \/ shiv_run
    \/ style_install
    \/ style_run
    \/ typing_install
    \/ typing_run
    \/ docs_install
    \/ docs_tmpdir
    \/ docs_sphinx
    \/ docs_style_install
    \/ docs_style_run
    \/ benchmark_install
    \/ benchmark_fn
    \/ develop_harness_build
    \/ develop_harness_smoke
    \/ requirements_install
    \/ requirements_compile
    \/ ui_install
    \/ ui_start

Spec == Init /\ [][Next]_vars

\* the noxfile is being loaded: nox.options.sessions = [] and any registrations
InitReg ==
    /\ registry = Empty.registry
    /\ sessions = Empty.sessions
    /\ schemaFiles = {}
    /\ Idle

NextReg ==
    \/ \E default \in BOOLEAN, kwname \in KwnamePool, f \in FnPool :
          RegisterSession(default, kwname, f)
    \/ \E default \in BOOLEAN, kwname \in KwnamePool, f \in FnPool, ids \in ParamsPool :
          RegisterParametrized(default, kwname, f, ids)
    \/ \E f \in FnPool : RegisterBenchmark(f)

SpecReg == InitReg /\ [][NextReg]_vars

\* ----------------------------------------------------------------- claims
Last(s) == s[Len(s)]

\* the names of a registry are pairwise distinct
DistinctNames(reg) ==
    \A a, b \in 1..Len(reg) : reg[a].name = reg[b].name => a = b

\* the names of the registrations made with default=true, in registration order
RECURSIVE DefaultNames(_)
DefaultNames(reg) ==
    IF reg = << >> THEN << >>
    ELSE LET rest == DefaultNames(SubSeq(reg, 1, Len(reg) - 1))
         IN  IF Last(reg).default THEN Append(rest, Last(reg).name) ELSE rest

\* C1: nox.options.sessions is the list of the names registered with
\* default=true, in registration order; when the registered names are pairwise
\* distinct each of them is in it once, and no name registered with
\* default=false (a bench(...) name among them) is in it.
C1_DefaultSelection ==
    /\ sessions = DefaultNames(registry)
    /\ DistinctNames(registry) =>
          /\ \A a, b \in 1..Len(sessions) : sessions[a] = sessions[b] => a = b
          /\ \A k \in 1..Len(registry) :
                registry[k].default <=> registry[k].name \in Range(sessions)

\* C1: three registrations under distinct names, the first and the last with
\* default=true around a benchmark, have been made
C1_Witness ==
    /\ Len(registry) = 3
    /\ DistinctNames(registry)
    /\ registry[1].default /\ registry[3].default
    /\ registry[2].name = << "bench(", "suite", ")" >>
    /\ Len(sessions) = 2

\* the step registers a parametrized function with default=true
RegistersDefaultTemplate ==
    /\ Len(registry') = Len(registry) + 1
    /\ Last(registry').default
    /\ Last(registry').parametrized

\* C2 as claimed: registering a parametrized template with default=true and N
\* parameters adds N names, each new and unique, to nox.options.sessions.
C2_GainsOnePerParameter ==
    [][RegistersDefaultTemplate =>
          /\ Len(sessions') = Len(sessions) + Len(Last(registry').params)
          /\ SubSeq(sessions', 1, Len(sessions)) = sessions]_vars

\* C2: registering a parametrized template with default=true adds exactly one
\* name to nox.options.sessions, the template's own, whatever the number N of
\* its parameters.
C2_GainsTemplateName ==
    [][RegistersDefaultTemplate =>
          sessions' = Append(sessions, Last(registry').name)]_vars

\* C2: a template of five parameters has been registered with default=true
C2_Witness ==
    \E k \in 1..Len(registry) :
        /\ registry[k].parametrized
        /\ registry[k].default
        /\ Len(registry[k].params) = 5
        /\ Len(sessions) = 1

build == << "build" >>

\* the task ended by reporting a mismatch of the named archive
Mismatch(text) == pc = "done" /\ outcome = "SessionError" /\ message.text = text

\* the paths a mismatch report names
ReportedPaths(m) == m.expected \cup m.found

\* C3 as claimed: an archive check passes whenever the ground truth is included
\* in the set derived from the archive, and otherwise the task fails with a
\* report that names exactly the missing paths G \ F.
C3_ReportsExactlyMissing ==
    /\ Mismatch(TAR_MISSING) =>
          /\ ~(Rglob(schemaFiles) \subseteq TarFound(tarMembers))
          /\ ReportedPaths(message) = Rglob(schemaFiles) \ TarFound(tarMembers)
    /\ Mismatch(WHEEL_MISSING) =>
          /\ ~(Rglob(schemaFiles) \subseteq WheelFound(wheelNames))
          /\ ReportedPaths(message) = Rglob(schemaFiles) \ WheelFound(wheelNames)

\* C3: an archive check passes exactly when the non-empty ground truth G is
\* included in the set F derived from the archive (more paths in F are
\* allowed); otherwise the task fails, and the report gives the whole of G as
\* expected and the whole of F as found.
C3_SubsetDecides ==
    /\ Mismatch(TAR_MISSING) =>
          /\ ~(Rglob(schemaFiles) \subseteq TarFound(tarMembers))
          /\ message.expected = Rglob(schemaFiles)
          /\ message.found = TarFound(tarMembers)
    /\ (fn = build /\ pc = "build_wheel") =>
          /\ Rglob(schemaFiles) # {}
          /\ Rglob(schemaFiles) \subseteq TarFound(tarMembers)
    /\ Mismatch(WHEEL_MISSING) =>
          /\ ~(Rglob(schemaFiles) \subseteq WheelFound(wheelNames))
          /\ message.expected = Rglob(schemaFiles)
          /\ message.found = WheelFound(wheelNames)
    /\ (fn = build /\ pc = "done" /\ outcome = "success") =>
          /\ Rglob(schemaFiles) # {}
          /\ Rglob(schemaFiles) \subseteq WheelFound(wheelNames)

\* C3: the tar check failed with one of two schema files in the archive
C3_Witness ==
    /\ Mismatch(TAR_MISSING)
    /\ Cardinality(schemas) = 2
    /\ Cardinality(schemas \cap found) = 1

\* C4 as claimed: the wheel is checked whatever the tar check gave, so when
\* both archives miss a schema file the wheel has been examined too.
C4_BothArchivesChecked ==
    (/\ fn = build
     /\ pc = "done"
     /\ outcome = "SessionError"
     /\ ~(Rglob(schemaFiles) \subseteq WheelFound(wheelNames)))
        => "wheel" \in opened

\* C4: the tar is checked first and the wheel only once the tar check has
\* passed; a mismatch in either fails the task, and a tar mismatch ends it
\* before the wheel is opened, so that a run reports one archive at most.
C4_WheelAfterTar ==
    /\ Mismatch(TAR_MISSING) => opened = {"tar"}
    /\ "wheel" \in opened =>
          /\ ~TarIndexError(tarMembers)
          /\ Rglob(schemaFiles) \subseteq TarFound(tarMembers)
    /\ Mismatch(WHEEL_MISSING) => opened = {"tar", "wheel"}
    /\ (fn = build /\ pc = "done" /\ outcome = "success") =>
          /\ Rglob(schemaFiles) \subseteq TarFound(tarMembers)
          /\ Rglob(schemaFiles) \subseteq WheelFound(wheelNames)

\* C4: the tar mismatch was reported in a run whose wheel misses a file too
C4_Witness ==
    /\ Mismatch(TAR_MISSING)
    /\ ~(schemas \subseteq WheelFound(wheelNames))

\* C5: when the schema directory has no *.json file the build task ends in the
\* assertion "Didn't find any schemas!", with no archive opened and no
\* mismatch report; and it ends that way only then.
C5_EmptySchemasFatal ==
    /\ outcome = "AssertionError" =>
          /\ pc = "done"
          /\ Rglob(schemaFiles) = {}
          /\ opened = {}
          /\ message = Missing(NO_SCHEMAS, {}, {})
    /\ (fn = build /\ Rglob(schemaFiles) = {}) =>
          /\ opened = {}
          /\ pc \notin {"build_tar", "build_wheel"}
          /\ outcome \in {"none", "CommandFailed", "KeyboardInterrupt", "AssertionError"}

\* C5: the assertion failed over a schema directory holding a file that is not
\* a *.json file, after a build that left archives
C5_Witness ==
    /\ outcome = "AssertionError"
    /\ schemaFiles # {}
    /\ tarMembers # {}

bench_suite_fn == << "bench_", "suite" >>

\* bench(suite) ended by reporting that no suite was given
NoSuiteGiven ==
    /\ fn = bench_suite_fn
    /\ pc = "done"
    /\ outcome = "SessionError"
    /\ message.text = PROVIDE_SUITE

\* C6 as claimed: bench(suite) without positional arguments fails before any
\* external process is started, the install step included.
C6_FailsBeforeAnyProcess == NoSuiteGiven => calls = << >>

\* C6: bench(suite) without positional arguments fails after the install step
\* and before the timing harness: the one call made is the install.
C6_FailsBeforeHarness ==
    /\ NoSuiteGiven =>
          /\ posargs = << >>
          /\ calls = << Install(<< "-r", "requirements.txt", "ROOT" >>) >>
    /\ (fn = bench_suite_fn /\ posargs = << >>) =>
          /\ outcome # "success"
          /\ \A k \in 1..Len(calls) : calls[k].via = "install"

\* C6: bench(suite) has reported that no suite was given
C6_Witness == NoSuiteGiven

\* some session.run call has the trailing arguments, all and in order, in its
\* arguments
PassedThrough == \E k \in 1..Len(calls) : calls[k].via = "run" /\ Contains(calls[k].args, posargs)

\* C7 as claimed: every task runs its command with the trailing arguments
\* passed through.
C7_EveryTaskPassesThrough ==
    (pc = "done" /\ outcome = "success" /\ posargs # << >>) => PassedThrough

\* C7: tests outside its coverage mode, every docs instance, bench(info) and
\* bench(smoke) run their command with all trailing arguments, unchanged and
\* in order.
C7_PassThroughTasks ==
    (pc = "done" /\ outcome = "success") =>
        /\ (fn = << "tests" >> /\ ~CoverageMode(posargs)) =>
              Last(calls) = Run(<< "pytest" >> \o posargs \o << "tests" >>)
        /\ (fn = << "docs" >> /\ posargs # << >>) =>
              /\ Last(calls).via = "run"
              /\ SubSeq(Last(calls).args, 1, 6) =
                    << "python", "-m", "sphinx", "-b", builder, "docs" >>
              /\ SubSeq(Last(calls).args, Len(Last(calls).args) - Len(posargs) + 1,
                        Len(Last(calls).args)) = posargs
        /\ (fn \in {<< "bench_", "info" >>, << "bench_", "smoke" >>} /\ posargs # << >>) =>
              /\ Last(calls).via = "run"
              /\ SubSeq(Last(calls).args, 1, Len(posargs) + 1) = << "hyperfine" >> \o posargs
              /\ Len(Last(calls).args) = Len(posargs) + 2

\* C7: a docs instance has run sphinx with two trailing arguments
C7_Witness ==
    /\ fn = << "docs" >>
    /\ pc = "done"
    /\ outcome = "success"
    /\ Len(posargs) = 2

\* C8: no session ends with its temporary directory still held, and the
\* directory is held only inside the block that acquired it.
C8_TmpdirReleased ==
    /\ pc = "done" => tmpdir # "held"
    /\ tmpdir = "held" =>
          pc \in {"build_run", "build_twine", "build_schemas", "build_tar", "build_wheel",
                  "shiv_run", "docs_sphinx"}

\* C8: shiv, run without a positional argument, was interrupted after it had
\* acquired its directory
C8_Witness ==
    /\ fn = << "shiv" >>
    /\ posargs = << >>
    /\ pc = "done"
    /\ outcome = "KeyboardInterrupt"
    /\ tmpdir = "released"

\* C9 as claimed: the source-archive step of build ends in success or in the
\* "Tar distribution schemas are missing" failure for every list of member
\* names, never in an unhandled error.
C9_TarStepNeverCrashes ==
    (fn = build /\ "tar" \in opened) =>
        \/ pc = "build_wheel"
        \/ "wheel" \in opened
        \/ Mismatch(TAR_MISSING)

\* "/".join(segments)
RECURSIVE JoinSegments(_)
JoinSegments(segs) ==
    IF Len(segs) = 0 THEN << >>
    ELSE IF Len(segs) = 1 THEN segs[1]
    ELSE segs[1] \o << SLASH >> \o JoinSegments(Tail(segs))

\* the member is <top-level dir>/bowtie/schemas/rel
IsSchemaMember(m, rel) ==
    LET pieces == Split(m, SLASH, Len(m))
    IN  /\ Len(pieces) = 3 + Len(rel)
        /\ pieces[1] # << >>
        /\ pieces[2] = << "bowtie" >>
        /\ pieces[3] = << "schemas" >>
        /\ SubSeq(pieces, 4, Len(pieces)) = rel

\* C10 as claimed: when build succeeds, every *.json file of the schema
\* directory, at rel under it, is in the tar as <top>/bowtie/schemas/rel and in
\* the wheel as bowtie/schemas/rel.
C10_ChecksSound ==
    (fn = build /\ pc = "done" /\ outcome = "success") =>
        \A rel \in {r \in schemaFiles : IsJson(r)} :
            /\ \E m \in tarMembers : IsSchemaMember(m, rel)
            /\ JoinSegments(<< << "bowtie" >>, << "schemas" >> >> \o rel) \in wheelNames

====
